---- MODULE Spec2Model ----
(***************************************************************************)
(* Stopwatch / voltmeter firmware for the NUCLEO-F401RE multifunction      *)
(* shield (src/main.cpp).                                                  *)
(*                                                                         *)
(* Execution contexts:                                                     *)
(*   - updateTime    : ticker callback, one access to a volatile counter   *)
(*                     per step;                                           *)
(*   - updateDisplay : ticker callback, one loop iteration per step, the   *)
(*                     sleep_for that ends an iteration being the point    *)
(*                     where the other contexts run;                       *)
(*   - resetTimeISR, toggleVoltModeISR, releaseVoltModeISR : button edge   *)
(*                     handlers, each atomic, firing between any two steps *)
(*                     of the callbacks.                                   *)
(* Voltages are integers in millivolts; the sensor delivers one of         *)
(* ADCMax + 1 equally spaced levels.                                       *)
(***************************************************************************)
EXTENDS Integers, Sequences, FiniteSets, TLC

\* ---------------------------------------------------------------- bounds
MaxTime  == 2      \* ticks are delivered while minutes:seconds is below this many seconds
ADCMax   == 2      \* highest sensor level (pot.read() = level / ADCMax)

\* ------------------------------------------------------------- constants
DP_POS == 1
VREF == 3300
SecondsPerMinute == 60
MinutesModulus == 100
digitBits == [d \in 0..9 |->
    CASE d = 0 -> 192 [] d = 1 -> 249 [] d = 2 -> 164 [] d = 3 -> 176
      [] d = 4 -> 153 [] d = 5 -> 146 [] d = 6 -> 130 [] d = 7 -> 248
      [] d = 8 -> 128 [] d = 9 -> 144]
\* variant: the last digit select repeats the third
digitPos_mut == [k \in 0..3 |-> CASE k = 0 -> 1 [] k = 1 -> 2 [] k = 2 -> 4 [] k = 3 -> 4]
digitPos == [k \in 0..3 |-> CASE k = 0 -> 1 [] k = 1 -> 2 [] k = 2 -> 4 [] k = 3 -> 8]

VARIABLES
    seconds, minutes,          \* volatile int seconds, minutes
    showVolt,                  \* volatile bool showVolt
    currentDigit,              \* volatile int currentDigit
    minVoltage, maxVoltage,    \* float minVoltage, maxVoltage (mV)
    latchPin, clockPin, dataPin,
    utPc, utReg,               \* updateTime: position, loaded register
    udPc, dispVal, digits, i,  \* updateDisplay: position and locals
    wrPc, wrBits, wrDigit, shByte, shI,  \* writeToShiftRegister / shiftOutMSBFirst frame
    pinLog,                    \* history: pin writes of the current/last write call
    written,                   \* history: <<bits, digit>> writes of the current pass
    sampled,                   \* history: a sensor sample was taken in the current pass
    samples,                   \* history: the voltages sampled since start
    nTicks,                    \* history: ticks delivered since start or the last reset
    nPend,                     \* history: 1 if a tick was in progress at the last reset
    utSec0, utMin0, utClean,   \* history: counters at updateTime entry; no reset since entry
    lastMode,                  \* history: kind of the most recent mode event
    last                       \* history: the most recent step and its operands

timeVars == <<seconds, minutes>>
pinVars  == <<latchPin, clockPin, dataPin>>
utVars   == <<utPc, utReg>>
udVars   == <<udPc, dispVal, digits, i>>
wrVars   == <<wrPc, wrBits, wrDigit, shByte, shI>>
utHist   == <<utSec0, utMin0, utClean, nTicks, nPend>>
udHist   == <<pinLog, written, sampled, samples>>
\* the program's own state, without the history variables
progVars == <<seconds, minutes, showVolt, currentDigit, minVoltage, maxVoltage,
              latchPin, clockPin, dataPin, utPc, utReg, udPc, dispVal, digits, i,
              wrPc, wrBits, wrDigit, shByte, shI>>
vars == <<seconds, minutes, showVolt, currentDigit, minVoltage, maxVoltage,
          latchPin, clockPin, dataPin, utPc, utReg, udPc, dispVal, digits, i,
          wrPc, wrBits, wrDigit, shByte, shI,
          pinLog, written, sampled, samples, utSec0, utMin0, utClean, nTicks, nPend,
          lastMode, last>>

\* op: the step taken; rep: a mode event directly preceded by the same mode event;
\* sv, sec, min: showVolt, seconds, minutes as the step found them
Step(op) == [op |-> op, rep |-> FALSE, i |-> 0, bits |-> 0, digit |-> 0,
             sv |-> FALSE, sec |-> 0, min |-> 0]

\* ============================================================ updateTime
updateTimeCall ==
    /\ utPc = "idle"
    /\ utPc' = "ld_sec"
    /\ utSec0' = seconds /\ utMin0' = minutes /\ utClean' = TRUE
    /\ last' = Step("updateTime")
    /\ UNCHANGED <<timeVars, showVolt, currentDigit, minVoltage, maxVoltage, pinVars,
                   utReg, udVars, wrVars, udHist, nPend, lastMode>>

\* The counters and the frame of the call as one record; each statement of
\* the body is a function on it, one access to a volatile counter at a time.
TimeFrame == [pc |-> utPc, reg |-> utReg, seconds |-> seconds, minutes |-> minutes]

SetTime(t) ==
    /\ utPc' = t.pc /\ utReg' = t.reg
    /\ seconds' = t.seconds /\ minutes' = t.minutes

\* seconds++ : load
ut_ld_sec(t) == [t EXCEPT !.reg = t.seconds, !.pc = "st_sec"]

\* seconds++ : store
ut_st_sec(t) == [t EXCEPT !.seconds = t.reg + 1, !.pc = "chk"]

\* variant: the rollover test written with > instead of >=
ut_chk_mut(t) == [t EXCEPT !.pc = IF t.seconds > SecondsPerMinute THEN "zero" ELSE "ret"]

\* if (seconds >= 60)
ut_chk(t) == [t EXCEPT !.pc = IF t.seconds >= SecondsPerMinute THEN "zero" ELSE "ret"]

\* seconds = 0
ut_zero(t) == [t EXCEPT !.seconds = 0, !.pc = "ld_min"]

\* minutes = (minutes + 1) % 100 : load
ut_ld_min(t) == [t EXCEPT !.reg = t.minutes, !.pc = "st_min"]

\* variant: the minutes counter stored without the modulo
ut_st_min_mut(t) == [t EXCEPT !.minutes = t.reg + 1, !.pc = "ret"]

\* minutes = (minutes + 1) % 100 : store
ut_st_min(t) == [t EXCEPT !.minutes = (t.reg + 1) % MinutesModulus, !.pc = "ret"]

utStep(t) ==
    CASE t.pc = "ld_sec" -> ut_ld_sec(t)
      [] t.pc = "st_sec" -> ut_st_sec(t)
      [] t.pc = "chk"    -> ut_chk(t)
      [] t.pc = "zero"   -> ut_zero(t)
      [] t.pc = "ld_min" -> ut_ld_min(t)
      [] t.pc = "st_min" -> ut_st_min(t)
      [] OTHER           -> t

\* variant: the tick also advances the multiplexing position
updateTimeStep_mut ==
    /\ utPc \in {"ld_sec", "st_sec", "chk", "zero", "ld_min", "st_min"}
    /\ SetTime(utStep(TimeFrame))
    /\ currentDigit' = (currentDigit + 1) % 4
    /\ last' = Step("updateTime")
    /\ UNCHANGED <<showVolt, minVoltage, maxVoltage, pinVars,
                   udVars, wrVars, udHist, utHist, lastMode>>

\* the next statement of the call in progress
updateTimeStep ==
    /\ utPc \in {"ld_sec", "st_sec", "chk", "zero", "ld_min", "st_min"}
    /\ SetTime(utStep(TimeFrame))
    /\ last' = Step("updateTime")
    /\ UNCHANGED <<showVolt, currentDigit, minVoltage, maxVoltage, pinVars,
                   udVars, wrVars, udHist, utHist, lastMode>>

updateTimeReturn ==
    /\ utPc = "ret"
    /\ utPc' = "idle"
    /\ utSec0' = 0 /\ utMin0' = 0 /\ utClean' = TRUE
    /\ last' = Step("updateTime")
    /\ UNCHANGED <<timeVars, utReg, showVolt, currentDigit, minVoltage, maxVoltage, pinVars,
                   udVars, wrVars, udHist, nTicks, nPend, lastMode>>

\* every step of an updateTime call
updateTime == updateTimeCall \/ updateTimeStep \/ updateTimeReturn

\* ========================================================= edge handlers
\* variant: the reset forgets the minutes counter
resetTimeISR_mut ==
    /\ seconds' = 0
    /\ utClean' = (utClean /\ utPc = "idle")
    /\ nTicks' = 0 /\ nPend' = (IF utPc = "idle" THEN 0 ELSE 1)
    /\ last' = [Step("reset") EXCEPT !.sec = seconds, !.min = minutes]
    /\ UNCHANGED <<minutes, showVolt, currentDigit, minVoltage, maxVoltage, pinVars, utVars,
                   udVars, wrVars, udHist, utSec0, utMin0, lastMode>>

\* variant: the reset also clears the voltage record and the display mode
resetTimeISR_all ==
    /\ seconds' = 0
    /\ minutes' = 0
    /\ showVolt' = FALSE
    /\ minVoltage' = VREF /\ maxVoltage' = 0
    /\ utClean' = (utClean /\ utPc = "idle")
    /\ nTicks' = 0 /\ nPend' = (IF utPc = "idle" THEN 0 ELSE 1)
    /\ last' = [Step("reset") EXCEPT !.sec = seconds, !.min = minutes]
    /\ UNCHANGED <<currentDigit, pinVars, utVars,
                   udVars, wrVars, udHist, utSec0, utMin0, lastMode>>

resetTimeISR ==
    /\ seconds' = 0
    /\ minutes' = 0
    /\ utClean' = (utClean /\ utPc = "idle")
    /\ nTicks' = 0 /\ nPend' = (IF utPc = "idle" THEN 0 ELSE 1)
    /\ last' = [Step("reset") EXCEPT !.sec = seconds, !.min = minutes]
    /\ UNCHANGED <<showVolt, currentDigit, minVoltage, maxVoltage, pinVars, utVars,
                   udVars, wrVars, udHist, utSec0, utMin0, lastMode>>

\* variant: the press handler inverts the flag
toggleVoltModeISR_mut ==
    /\ showVolt' = ~showVolt
    /\ lastMode' = "enter"
    /\ last' = [Step("enter") EXCEPT !.sv = showVolt, !.rep = (last.op = "enter")]
    /\ UNCHANGED <<timeVars, currentDigit, minVoltage, maxVoltage, pinVars, utVars,
                   udVars, wrVars, udHist, utHist>>

toggleVoltModeISR ==
    /\ showVolt' = TRUE
    /\ lastMode' = "enter"
    /\ last' = [Step("enter") EXCEPT !.sv = showVolt, !.rep = (last.op = "enter")]
    /\ UNCHANGED <<timeVars, currentDigit, minVoltage, maxVoltage, pinVars, utVars,
                   udVars, wrVars, udHist, utHist>>

releaseVoltModeISR ==
    /\ showVolt' = FALSE
    /\ lastMode' = "exit"
    /\ last' = [Step("exit") EXCEPT !.sv = showVolt, !.rep = (last.op = "exit")]
    /\ UNCHANGED <<timeVars, currentDigit, minVoltage, maxVoltage, pinVars, utVars,
                   udVars, wrVars, udHist, utHist>>

\* ================================= writeToShiftRegister / shiftOutMSBFirst
\* The call frame and the pins as one record, so that the same statements
\* serve the stepwise and the run-to-completion execution of a write.
Machine ==
    [pc |-> wrPc, bits |-> wrBits, digit |-> wrDigit, byte |-> shByte, idx |-> shI,
     latchPin |-> latchPin, clockPin |-> clockPin, dataPin |-> dataPin, log |-> pinLog]

SetMachine(m) ==
    \E n \in {m} :
        /\ wrPc' = n.pc /\ wrBits' = n.bits /\ wrDigit' = n.digit
        /\ shByte' = n.byte /\ shI' = n.idx
        /\ latchPin' = n.latchPin /\ clockPin' = n.clockPin /\ dataPin' = n.dataPin
        /\ pinLog' = n.log

\* (value >> k) & 1
BitAt(value, k) == (value \div (2 ^ k)) % 2

\* the argument of the shiftOutMSBFirst call in progress
shValue(m) == IF m.byte = 1 THEN m.bits ELSE m.digit

\* entry of writeToShiftRegister(bits, digit)
wrCall(m, bits, digit) ==
    [m EXCEPT !.pc = "latchLow", !.bits = bits, !.digit = digit,
              !.byte = 1, !.idx = 7, !.log = <<>>]

\* latchPin = 0; then shiftOutMSBFirst(bits) starts with i = 7
wr_latchLow(m) ==
    [m EXCEPT !.latchPin = 0, !.log = Append(@, <<"latch", 0>>),
              !.byte = 1, !.idx = 7, !.pc = "data"]

\* variant: least significant bit first
sh_data_mut(m) ==
    [m EXCEPT !.dataPin = BitAt(shValue(m), 7 - m.idx),
              !.log = Append(@, <<"data", BitAt(shValue(m), 7 - m.idx)>>),
              !.pc = "clkHigh"]

\* dataPin = (value >> i) & 1
sh_data(m) ==
    [m EXCEPT !.dataPin = BitAt(shValue(m), m.idx),
              !.log = Append(@, <<"data", BitAt(shValue(m), m.idx)>>),
              !.pc = "clkHigh"]

\* clockPin = 1
sh_clkHigh(m) ==
    [m EXCEPT !.clockPin = 1, !.log = Append(@, <<"clock", 1>>), !.pc = "clkLow"]

\* clockPin = 0; i--; loop test; after the first call comes shiftOutMSBFirst(digit)
sh_clkLow(m) ==
    LET n == [m EXCEPT !.clockPin = 0, !.log = Append(@, <<"clock", 0>>)]
    IN  IF m.idx - 1 >= 0 THEN [n EXCEPT !.idx = m.idx - 1, !.pc = "data"]
        ELSE IF m.byte = 1 THEN [n EXCEPT !.byte = 2, !.idx = 7, !.pc = "data"]
        ELSE [n EXCEPT !.idx = m.idx - 1, !.pc = "latchHigh"]

\* latchPin = 1; return
wr_latchHigh(m) ==
    [m EXCEPT !.latchPin = 1, !.log = Append(@, <<"latch", 1>>), !.pc = "idle"]

wrStep(m) ==
    CASE m.pc = "latchLow"  -> wr_latchLow(m)
      [] m.pc = "data"      -> sh_data(m)
      [] m.pc = "clkHigh"   -> sh_clkHigh(m)
      [] m.pc = "clkLow"    -> sh_clkLow(m)
      [] m.pc = "latchHigh" -> wr_latchHigh(m)
      [] OTHER              -> m

RECURSIVE wrRun(_)
wrRun(m) == IF m.pc = "idle" THEN m ELSE wrRun(wrStep(m))

\* bits &= ~0x80
ClearDP(bits) == bits - BitAt(bits, 7) * 128

\* the arguments updateDisplay can pass: a byte of the segment table, with or
\* without decimal point, and a digit select
SegmentBytes == {digitBits[d] : d \in 0..9} \cup {ClearDP(digitBits[d]) : d \in 0..9}
DigitSelects == {digitPos[k] : k \in 0..3}

\* frame and pins before the first call (DigitalOut pins start low)
Machine0 ==
    [pc |-> "idle", bits |-> 0, digit |-> 0, byte |-> 1, idx |-> 0,
     latchPin |-> 0, clockPin |-> 0, dataPin |-> 0, log |-> <<>>]

\* A call overwrites every field of the frame and every pin, so what it leaves
\* depends on its arguments only; the run to completion is tabulated per
\* argument pair.
wrResult == [b \in SegmentBytes, d \in DigitSelects |-> wrRun(wrCall(Machine0, b, d))]

\* the whole call, as updateDisplay makes it
writeToShiftRegister(bits, digit) == wrResult[bits, digit]

\* one statement of a write in progress
wrFrame == UNCHANGED <<timeVars, showVolt, currentDigit, minVoltage, maxVoltage,
                       utVars, udVars, written, sampled, samples, utHist, lastMode>>
wrLatchLow ==
    /\ wrPc = "latchLow" /\ SetMachine(wrStep(Machine))
    /\ last' = Step("pin") /\ wrFrame
shData ==
    /\ wrPc = "data" /\ SetMachine(wrStep(Machine))
    /\ last' = Step("pin") /\ wrFrame
shClockHigh ==
    /\ wrPc = "clkHigh" /\ SetMachine(wrStep(Machine))
    /\ last' = Step("pin") /\ wrFrame
shClockLow ==
    /\ wrPc = "clkLow" /\ SetMachine(wrStep(Machine))
    /\ last' = Step("pin") /\ wrFrame
wrLatchHigh ==
    /\ wrPc = "latchHigh" /\ SetMachine(wrStep(Machine))
    /\ last' = Step("pin") /\ wrFrame

\* ========================================================= updateDisplay
\* variant: the hundreds digit taken with the tens divisor
Digits_mut(N) == [k \in 0..3 |->
    CASE k = 0 -> (N \div 1000) % 10
      [] k = 1 -> (N \div 10) % 10
      [] k = 2 -> (N \div 10) % 10
      [] k = 3 -> N % 10]

\* digits[4] of lines 132-137
Digits(N) == [k \in 0..3 |->
    CASE k = 0 -> (N \div 1000) % 10
      [] k = 1 -> (N \div 100) % 10
      [] k = 2 -> (N \div 10) % 10
      [] k = 3 -> N % 10]

\* pot.read() * VREF, in millivolts
Voltage(level) == (level * VREF) \div ADCMax
\* (int)(voltage * 100), voltage in volts
Scaled(voltage) == (voltage * 100) \div 1000
\* variant: the sample stored without comparing
fmin_mut(a, b) == b
fmin(a, b) == IF a < b THEN a ELSE b
\* variant: the sample stored without comparing
fmax_mut(a, b) == b
fmax(a, b) == IF a > b THEN a ELSE b
\* variant: the displayed value taken from the time accumulator
updateDisplayCall_mut ==
    /\ udPc = "idle"
    /\ dispVal' = minutes * 100 + seconds
    /\ udPc' = "decompose"
    /\ written' = <<>> /\ sampled' = FALSE
    /\ last' = Step("display")
    /\ UNCHANGED <<timeVars, showVolt, currentDigit, minVoltage, maxVoltage, pinVars,
                   utVars, digits, i, wrVars, pinLog, samples, utHist, lastMode>>

\* int dispVal = 0
updateDisplayCall ==
    /\ udPc = "idle"
    /\ dispVal' = 0
    /\ udPc' = "decompose"
    /\ written' = <<>> /\ sampled' = FALSE
    /\ last' = Step("display")
    /\ UNCHANGED <<timeVars, showVolt, currentDigit, minVoltage, maxVoltage, pinVars,
                   utVars, digits, i, wrVars, pinLog, samples, utHist, lastMode>>

\* int digits[4] = {...}; i = 0
updateDisplayDigits ==
    /\ udPc = "decompose"
    /\ digits' = Digits(dispVal)
    /\ i' = 0
    /\ udPc' = "loop"
    /\ last' = Step("display")
    /\ UNCHANGED <<timeVars, showVolt, currentDigit, minVoltage, maxVoltage, pinVars,
                   utVars, dispVal, wrVars, udHist, utHist, lastMode>>

\* variant: the decimal point lit at every position reached in voltage mode
updateDisplayPlain_mut ==
    /\ udPc = "loop" /\ i < 4
    /\ ~(showVolt /\ i = DP_POS)
    /\ LET bits == IF showVolt THEN ClearDP(digitBits[digits[i]]) ELSE digitBits[digits[i]]
       IN  /\ SetMachine(writeToShiftRegister(bits, digitPos[i]))
           /\ written' = Append(written, <<bits, digitPos[i]>>)
           /\ last' = [Step("write") EXCEPT !.i = i, !.bits = bits, !.digit = digitPos[i],
                               !.sv = showVolt, !.sec = seconds, !.min = minutes]
    /\ i' = i + 1
    /\ udPc' = "loop"
    /\ UNCHANGED <<timeVars, showVolt, currentDigit, minVoltage, maxVoltage,
                   utVars, dispVal, digits, sampled, samples, utHist, lastMode>>

\* one loop iteration for a position without decimal point: lines 140, 141
\* (false), 148, the sleep of line 149 and ++i
updateDisplayPlain ==
    /\ udPc = "loop" /\ i < 4
    /\ ~(showVolt /\ i = DP_POS)
    /\ LET bits == digitBits[digits[i]]
       IN  /\ SetMachine(writeToShiftRegister(bits, digitPos[i]))
           /\ written' = Append(written, <<bits, digitPos[i]>>)
           /\ last' = [Step("write") EXCEPT !.i = i, !.bits = bits, !.digit = digitPos[i],
                               !.sv = showVolt, !.sec = seconds, !.min = minutes]
    /\ i' = i + 1
    /\ udPc' = "loop"
    /\ UNCHANGED <<timeVars, showVolt, currentDigit, minVoltage, maxVoltage,
                   utVars, dispVal, digits, sampled, samples, utHist, lastMode>>

\* variant: the sample is taken at the decimal-point position in either mode
updateDisplaySample_mut ==
    /\ udPc = "loop" /\ i < 4
    /\ i = DP_POS
    /\ \E level \in 0..ADCMax :
         LET bits == ClearDP(digitBits[digits[i]])
             voltage == Voltage(level)
         IN  /\ minVoltage' = fmin(minVoltage, voltage)
             /\ maxVoltage' = fmax(maxVoltage, voltage)
             /\ dispVal' = Scaled(voltage)
             /\ samples' = samples \cup {voltage}
             /\ SetMachine(writeToShiftRegister(bits, digitPos[i]))
             /\ written' = Append(written, <<bits, digitPos[i]>>)
             /\ last' = [Step("write") EXCEPT !.i = i, !.bits = bits, !.digit = digitPos[i],
                                 !.sv = showVolt, !.sec = seconds, !.min = minutes]
    /\ sampled' = TRUE
    /\ i' = i + 1
    /\ udPc' = "loop"
    /\ UNCHANGED <<timeVars, showVolt, currentDigit, utVars, digits, utHist, lastMode>>

\* one loop iteration for the decimal-point position in voltage mode:
\* lines 140-148, the sleep of line 149 and ++i
updateDisplaySample ==
    /\ udPc = "loop" /\ i < 4
    /\ showVolt /\ i = DP_POS
    /\ \E level \in 0..ADCMax :
         LET bits == ClearDP(digitBits[digits[i]])
             voltage == Voltage(level)
         IN  /\ minVoltage' = fmin(minVoltage, voltage)
             /\ maxVoltage' = fmax(maxVoltage, voltage)
             /\ dispVal' = Scaled(voltage)
             /\ samples' = samples \cup {voltage}
             /\ SetMachine(writeToShiftRegister(bits, digitPos[i]))
             /\ written' = Append(written, <<bits, digitPos[i]>>)
             /\ last' = [Step("write") EXCEPT !.i = i, !.bits = bits, !.digit = digitPos[i],
                                 !.sv = showVolt, !.sec = seconds, !.min = minutes]
    /\ sampled' = TRUE
    /\ i' = i + 1
    /\ udPc' = "loop"
    /\ UNCHANGED <<timeVars, showVolt, currentDigit, utVars, digits, utHist, lastMode>>

\* i < 4 fails: return
updateDisplayReturn ==
    /\ udPc = "loop" /\ ~(i < 4)
    /\ udPc' = "idle"
    /\ last' = Step("display")
    /\ UNCHANGED <<timeVars, showVolt, currentDigit, minVoltage, maxVoltage, pinVars,
                   utVars, dispVal, digits, i, wrVars, udHist, utHist, lastMode>>

updateDisplay ==
    \/ updateDisplayCall \/ updateDisplayDigits \/ updateDisplayPlain
    \/ updateDisplaySample \/ updateDisplayReturn

\* ======================================================== specifications
\* variant: both voltage extremes start at zero
Init0_mut ==
    /\ seconds = 0 /\ minutes = 0
    /\ showVolt = FALSE
    /\ currentDigit = 0
    /\ minVoltage = 0 /\ maxVoltage = 0
    /\ latchPin = 0 /\ clockPin = 0 /\ dataPin = 0
    /\ wrPc = "idle" /\ wrBits = 0 /\ wrDigit = 0 /\ shByte = 1 /\ shI = 0
    /\ pinLog = <<>>
    /\ utPc = "idle" /\ utReg = 0
    /\ udPc = "idle" /\ dispVal = 0 /\ digits = Digits(0) /\ i = 0
    /\ written = <<>> /\ sampled = FALSE /\ samples = {}
    /\ utSec0 = 0 /\ utMin0 = 0 /\ utClean = TRUE /\ nTicks = 0 /\ nPend = 0
    /\ lastMode = "none"
    /\ last = Step("init")

\* state after construction of the globals (lines 36-53)
Init0 ==
    /\ seconds = 0 /\ minutes = 0
    /\ showVolt = FALSE
    /\ currentDigit = 0
    /\ minVoltage = VREF /\ maxVoltage = 0
    /\ latchPin = 0 /\ clockPin = 0 /\ dataPin = 0
    /\ wrPc = "idle" /\ wrBits = 0 /\ wrDigit = 0 /\ shByte = 1 /\ shI = 0
    /\ pinLog = <<>>
    /\ utPc = "idle" /\ utReg = 0
    /\ udPc = "idle" /\ dispVal = 0 /\ digits = Digits(0) /\ i = 0
    /\ written = <<>> /\ sampled = FALSE /\ samples = {}
    /\ utSec0 = 0 /\ utMin0 = 0 /\ utClean = TRUE /\ nTicks = 0 /\ nPend = 0
    /\ lastMode = "none"
    /\ last = Step("init")

Init == Init0

\* timerTicker.attach(&updateTime, 1s)
Tick ==
    /\ minutes * SecondsPerMinute + seconds < MaxTime
    /\ updateTimeCall
    /\ nTicks' = (nTicks + 1) % (SecondsPerMinute * MinutesModulus)

\* the firmware: both ticker callbacks and the three edge handlers, from the
\* state after construction.  Ticks stop at MaxTime, so the minute rollover of
\* updateTime is exercised under SpecTime, which starts from every counter
\* value.  sleep_for is taken to suspend updateDisplay; a callback does not
\* re-enter itself.
Next ==
    \/ Tick
    \/ updateTimeStep
    \/ updateTimeReturn
    \/ resetTimeISR
    \/ toggleVoltModeISR
    \/ releaseVoltModeISR
    \/ updateDisplayCall \/ updateDisplayDigits \/ updateDisplayPlain
    \/ updateDisplaySample \/ updateDisplayReturn

Spec == Init /\ [][Next]_vars

\* a refresh pass that has a step to take eventually takes it: sleep_for
\* returns, and dispTicker keeps starting passes
SpecFair == Init /\ [][Next]_vars /\ WF_vars(updateDisplay)

\* the time accumulator and the edge handlers, from any value of the counters
InitTime ==
    /\ seconds \in 0..(SecondsPerMinute - 1) /\ minutes \in 0..(MinutesModulus - 1)
    /\ showVolt = FALSE
    /\ currentDigit = 0
    /\ minVoltage = VREF /\ maxVoltage = 0
    /\ latchPin = 0 /\ clockPin = 0 /\ dataPin = 0
    /\ utPc = "idle" /\ utReg = 0
    /\ udPc = "idle" /\ dispVal = 0 /\ digits = Digits(0) /\ i = 0
    /\ wrPc = "idle" /\ wrBits = 0 /\ wrDigit = 0 /\ shByte = 1 /\ shI = 0
    /\ pinLog = <<>> /\ written = <<>> /\ sampled = FALSE /\ samples = {}
    /\ utSec0 = 0 /\ utMin0 = 0 /\ utClean = TRUE /\ nTicks = 0 /\ nPend = 0
    /\ lastMode = "none"
    /\ last = Step("init")

\* a tick from any counter value; ticks are counted under Spec only
TickAny == updateTimeCall /\ UNCHANGED nTicks

NextTime ==
    \/ TickAny
    \/ updateTimeStep
    \/ updateTimeReturn
    \/ resetTimeISR
    \/ toggleVoltModeISR
    \/ releaseVoltModeISR

SpecTime == InitTime /\ [][NextTime]_vars

\* one writeToShiftRegister call, statement by statement, for every segment
\* byte of the table (with and without decimal point) and every digit select

InitShift ==
    /\ seconds = 0 /\ minutes = 0
    /\ showVolt = FALSE
    /\ currentDigit = 0
    /\ minVoltage = VREF /\ maxVoltage = 0
    /\ latchPin \in {0, 1} /\ clockPin = 0 /\ dataPin \in {0, 1}
    /\ utPc = "idle" /\ utReg = 0
    /\ udPc = "loop" /\ dispVal = 0 /\ digits = Digits(0) /\ i \in 0..3
    /\ wrPc = "latchLow" /\ wrBits \in SegmentBytes /\ wrDigit = digitPos[i]
    /\ shByte = 1 /\ shI = 7
    /\ pinLog = <<>> /\ written = <<>> /\ sampled = FALSE /\ samples = {}
    /\ utSec0 = 0 /\ utMin0 = 0 /\ utClean = TRUE /\ nTicks = 0 /\ nPend = 0
    /\ lastMode = "none"
    /\ last = Step("init")

NextShift == wrLatchLow \/ shData \/ shClockHigh \/ shClockLow \/ wrLatchHigh

SpecShift == InitShift /\ [][NextShift]_vars

\* the digit decomposition of lines 132-137 applied to every 4-digit value
DispValues == 0..9999

InitDigits ==
    /\ seconds = 0 /\ minutes = 0
    /\ showVolt = FALSE
    /\ currentDigit = 0
    /\ minVoltage = VREF /\ maxVoltage = 0
    /\ latchPin = 0 /\ clockPin = 0 /\ dataPin = 0
    /\ utPc = "idle" /\ utReg = 0
    /\ udPc = "decompose" /\ dispVal \in DispValues /\ digits = Digits(0) /\ i = 0
    /\ wrPc = "idle" /\ wrBits = 0 /\ wrDigit = 0 /\ shByte = 1 /\ shI = 0
    /\ pinLog = <<>> /\ written = <<>> /\ sampled = FALSE /\ samples = {}
    /\ utSec0 = 0 /\ utMin0 = 0 /\ utClean = TRUE /\ nTicks = 0 /\ nPend = 0
    /\ lastMode = "none"
    /\ last = Step("init")

NextDigits == updateDisplayDigits

SpecDigits == InitDigits /\ [][NextDigits]_vars

\* ================================================================ claims

\* C1: a complete updateTime call that no reset event interrupts takes
\* (seconds, minutes) with seconds < 59 to (seconds + 1, minutes), (59, m) with
\* m < 99 to (0, m + 1) and (59, 99) to (0, 0).
C1_UpdateTimeContract ==
    (utPc = "ret" /\ utClean) =>
        IF utSec0 < 59 THEN seconds = utSec0 + 1 /\ minutes = utMin0
        ELSE IF utMin0 < 99 THEN seconds = 0 /\ minutes = utMin0 + 1
        ELSE seconds = 0 /\ minutes = 0
C1_Witness ==
    utPc = "ret" /\ utClean /\ utSec0 = 59 /\ utMin0 = 99 /\ seconds = 0 /\ minutes = 0

\* C2: directly after resetTimeISR both counters are zero, whatever they held
\* before and whatever ticks and mode events came before.
C2_ResetZeroes == last.op = "reset" => (seconds = 0 /\ minutes = 0)
C2_Witness ==
    /\ last.op = "reset" /\ last.sec = 60 /\ last.min = 99
    /\ utPc = "chk" /\ lastMode = "enter"
    /\ seconds = 0 /\ minutes = 0

\* C3 (as claimed): in every reachable state, also between the statements of
\* updateTime, 0 <= seconds <= 59 and 0 <= minutes <= 99.
C3_RangeAsClaimed == seconds \in 0..59 /\ minutes \in 0..99
\* C3 (amended): 0 <= seconds <= 60 and 0 <= minutes <= 99 in every reachable
\* state, and seconds = 60 only inside updateTime between the increment and
\* the reset to zero.
C3_RangeAmended ==
    /\ seconds \in 0..60 /\ minutes \in 0..99
    /\ seconds = 60 => utPc \in {"chk", "zero"}
C3_Witness == seconds = 60 /\ minutes = 99 /\ utPc = "zero"

\* C4: showVolt is true after the press handler and false after the release
\* handler, so it always equals the kind of the most recent mode event, and a
\* handler called directly after itself leaves the program state unchanged.
C4_ModeFlag ==
    /\ [](lastMode = "enter" => showVolt)
    /\ [](lastMode = "exit" => ~showVolt)
    /\ [][(last.op = "enter" /\ toggleVoltModeISR) => UNCHANGED progVars]_vars
    /\ [][(last.op = "exit" /\ releaseVoltModeISR) => UNCHANGED progVars]_vars
C4_Witness == last.op = "enter" /\ last.rep /\ showVolt /\ lastMode = "enter"

\* C5: from one state to the next minVoltage never increases and maxVoltage
\* never decreases.
C5_MinMaxMonotone == [][minVoltage' <= minVoltage /\ maxVoltage' >= maxVoltage]_vars
C5_Witness ==
    /\ last.op = "write" /\ last.i = DP_POS /\ last.sv
    /\ minVoltage = 0 /\ maxVoltage = VREF

\* C6: for N in 0..9999 the decomposition gives four decimal digits,
\* thousands first, whose weighted sum is N.
C6_Decomposition ==
    udPc = "loop" =>
        /\ \A k \in 0..3 : digits[k] \in 0..9
        /\ digits[0] * 1000 + digits[1] * 100 + digits[2] * 10 + digits[3] = dispVal
C6_Witness ==
    /\ udPc = "loop" /\ dispVal = 4096
    /\ digits[0] = 4 /\ digits[1] = 0 /\ digits[2] = 9 /\ digits[3] = 6

\* C7: a write drives latch low, then the 8 bits of `bits` and the 8 bits of
\* `digit`, most significant first, each followed by a clock pulse, then latch
\* high; the latch stays low while bits are shifted and rises only after 16.
MSBFirst(v) == [k \in 1..8 |-> (v \div (2 ^ (8 - k))) % 2]
RECURSIVE PulseTrain(_, _)
PulseTrain(b, k) ==
    IF k > 8 THEN <<>>
    ELSE <<<<"data", b[k]>>, <<"clock", 1>>, <<"clock", 0>>>> \o PulseTrain(b, k + 1)
ExpectedLog(bits, digit) ==
    <<<<"latch", 0>>>> \o PulseTrain(MSBFirst(bits), 1)
        \o PulseTrain(MSBFirst(digit), 1) \o <<<<"latch", 1>>>>
ClockPulses(log) == Cardinality({k \in 1..Len(log) : log[k] = <<"clock", 1>>})
C7_ShiftProtocol ==
    /\ (wrPc = "idle" /\ pinLog # <<>>) =>
          /\ pinLog = ExpectedLog(wrBits, wrDigit)
          /\ ClockPulses(pinLog) = 16
          /\ latchPin = 1
    /\ wrPc \in {"data", "clkHigh", "clkLow", "latchHigh"} => latchPin = 0
    /\ \A k \in 1..Len(pinLog) :
          pinLog[k] = <<"latch", 1>> => (k = 50 /\ ClockPulses(pinLog) = 16)
C7_Witness ==
    wrPc = "idle" /\ Len(pinLog) = 50 /\ wrBits = 64 /\ wrDigit = 2 /\ latchPin = 1

\* C8 (as claimed): in a pass that sampled the sensor, the segment bytes
\* written after the sample are the digits of the scaled voltage.
C8_VoltageDigits ==
    (last.op = "write" /\ sampled /\ last.i > DP_POS) =>
        last.bits = digitBits[Digits(dispVal)[last.i]]

\* C9 (as claimed): with showVolt false a written segment byte is the digit of
\* MM SS, taken from the counters at the time of the write.
C9_TimeDigits ==
    (last.op = "write" /\ ~last.sv) =>
        last.bits = digitBits[Digits((last.min % 100) * 100 + (last.sec % 100))[last.i]]

\* C10: no step of updateTime changes showVolt, minVoltage, maxVoltage,
\* currentDigit or an output pin.
C10_UpdateTimeFrame ==
    [][updateTime => UNCHANGED <<showVolt, minVoltage, maxVoltage, currentDigit,
                                 latchPin, clockPin, dataPin>>]_vars
C10_Witness ==
    /\ last.op = "updateTime" /\ utPc = "ret" /\ utClean
    /\ utSec0 = 59 /\ utMin0 = 98 /\ seconds = 0 /\ minutes = 99
    /\ showVolt /\ lastMode = "enter"

\* C11: a step taken while showVolt is false changes neither minVoltage nor
\* maxVoltage and takes no sensor sample; in particular the iteration for
\* position DP_POS of a pass in time mode does not.
C11_MinMaxOnlyInVoltMode ==
    [][~showVolt => /\ UNCHANGED <<minVoltage, maxVoltage, samples>>
                    /\ (sampled' => sampled)]_vars
C11_Witness ==
    /\ last.op = "write" /\ last.i = DP_POS /\ ~last.sv /\ ~sampled
    /\ minVoltage < VREF /\ maxVoltage > 0

\* C12 (as claimed): at process start seconds, minutes, minVoltage and
\* maxVoltage are 0 and showVolt is false.
C12_InitAsClaimed ==
    last.op = "init" =>
        /\ seconds = 0 /\ minutes = 0 /\ showVolt = FALSE
        /\ minVoltage = 0 /\ maxVoltage = 0
\* C12 (amended): at process start seconds, minutes and maxVoltage are 0,
\* showVolt is false and minVoltage is 3.3 V.
C12_InitAmended ==
    last.op = "init" =>
        /\ seconds = 0 /\ minutes = 0 /\ showVolt = FALSE
        /\ minVoltage = VREF /\ maxVoltage = 0
C12_Witness ==
    /\ last.op = "init" /\ utPc = "idle" /\ udPc = "idle"
    /\ minVoltage = VREF /\ maxVoltage = 0 /\ samples = {}

PassShape ==
    /\ Len(written) <= 4
    /\ udPc = "loop" => Len(written) = i
    /\ \A k \in 1..Len(written) : written[k][2] = 2 ^ (k - 1)
    /\ (udPc = "idle" /\ pinLog # <<>>) => Len(written) = 4
C14_FourWrites == []PassShape /\ ((udPc # "idle") ~> (udPc = "idle"))
C14_Witness ==
    /\ udPc = "idle" /\ last.op = "display" /\ Len(written) = 4
    /\ written[1][2] = 1 /\ written[2][2] = 2 /\ written[3][2] = 4 /\ written[4][2] = 8

\* C15: a written segment byte has bit 7 cleared exactly if it is for
\* position DP_POS and showVolt was true when that position was processed.
C15_DecimalPoint ==
    last.op = "write" =>
        ((BitAt(last.bits, 7) = 0) <=> (last.i = DP_POS /\ last.sv))
\* the flag was false at position 1 and true at position 2 of the same pass
C15_Witness ==
    /\ last.op = "write" /\ last.i = 2 /\ last.sv /\ ~sampled
    /\ BitAt(last.bits, 7) = 1 /\ BitAt(written[2][1], 7) = 1

\* C16 (as claimed): when no tick is in progress, minutes * 60 + seconds is
\* the number of ticks since start or the last reset, modulo 6000.  A tick that
\* was in progress at that reset may or may not be among them.
C16_TickCount ==
    utPc = "idle" =>
        LET T == minutes * 60 + seconds
        IN  \/ T = nTicks
            \/ nPend = 1 /\ T = (nTicks + 1) % 6000

\* C17 (as claimed): when an updateTime call that a reset event interrupted has
\* finished, the counters are 00:00 (tick, then reset) or 00:01 (reset, then
\* tick).
C17_ResetLinearizable ==
    (utPc = "ret" /\ ~utClean) => (minutes = 0 /\ seconds \in {0, 1})

\* C18: before the first sample minVoltage = VREF > maxVoltage = 0; afterwards
\* minVoltage is the least and maxVoltage the greatest of the samples taken,
\* minVoltage <= maxVoltage and both lie in [0, VREF].
Least(S) == CHOOSE x \in S : \A y \in S : x <= y
Greatest(S) == CHOOSE x \in S : \A y \in S : x >= y
C18_MinMaxOfSamples ==
    IF samples = {}
    THEN minVoltage = VREF /\ maxVoltage = 0
    ELSE /\ minVoltage = Least(samples) /\ maxVoltage = Greatest(samples)
         /\ minVoltage <= maxVoltage
         /\ 0 <= minVoltage /\ maxVoltage <= VREF
C18_Witness ==
    /\ Cardinality(samples) >= 2
    /\ 0 < minVoltage /\ minVoltage < maxVoltage /\ maxVoltage = VREF
    /\ last.op = "write" /\ last.i = DP_POS /\ last.sv

\* C19: the mode handlers leave seconds, minutes, minVoltage and maxVoltage
\* unchanged, and the reset handler leaves showVolt, minVoltage and maxVoltage
\* unchanged.
C19_HandlerFrames ==
    [][/\ (toggleVoltModeISR \/ releaseVoltModeISR)
            => UNCHANGED <<seconds, minutes, minVoltage, maxVoltage>>
       /\ resetTimeISR => UNCHANGED <<showVolt, minVoltage, maxVoltage>>]_vars
C19_Witness ==
    /\ last.op = "reset" /\ last.sec > 0 /\ seconds = 0
    /\ showVolt /\ minVoltage < VREF /\ maxVoltage > 0

====
